---------------------------- MODULE Spec2Model ----------------------------
(***************************************************************************)
(* Model of the assignment toolkit's type registry (type-mapping.go) and   *)
(* package validator (commands.go).                                        *)
(*                                                                         *)
(* Go strings are modelled as sequences of one-character strings, so that  *)
(* strings.TrimSpace and strings.ToLower are computed rather than assumed. *)
(***************************************************************************)
EXTENDS Integers, Sequences, FiniteSets, TLC

VARIABLES
    globalTypeManager,  \* type-mapping.go:208, Nil until GetTypeManager ran
    op,                 \* the operation that produced the current result
    arg,                \* its argument
    ret,                \* its result
    files,              \* the package files of the working directory
    callers             \* the goroutines inside GetTypeManager and the heap

vars == <<globalTypeManager, op, arg, ret, files, callers>>

Nil == "nil"

-----------------------------------------------------------------------------
(* Bounds of the model *)

\* longest run of whitespace put in front of / behind an input
MaxPad == 1
\* longest free-form input built from ShortAlphabet
MaxLen == 2
\* Points of a package range over -MaxPoints .. MaxPoints
MaxPoints == 2
\* largest number of entries of a question payload
MaxQuestions == 1
\* time stamps of the scheduling fields range over 1 .. MaxTime
MaxTime == 1
\* time limit and max attempts range over 0 .. MaxCount
MaxCount == 1
\* largest number of packages handed to BatchSyncAssignments
MaxBatch == 3
\* largest number of resources of a package
MaxResources == 2
\* how deep package directories are nested: a packaged file is packaged again
\* fewer than MaxNesting times
MaxNesting == 1
\* number of goroutines that call GetTypeManager
MaxCallers == 3

-----------------------------------------------------------------------------
(* strings.ToLower and strings.TrimSpace *)

UpperChars ==
    <<"A", "B", "C", "D", "E", "F", "G", "H", "I", "J", "K", "L", "M",
      "N", "O", "P", "Q", "R", "S", "T", "U", "V", "W", "X", "Y", "Z">>

LowerChars ==
    <<"a", "b", "c", "d", "e", "f", "g", "h", "i", "j", "k", "l", "m",
      "n", "o", "p", "q", "r", "s", "t", "u", "v", "w", "x", "y", "z">>

\* unicode.IsSpace, restricted to the ASCII white space the model uses
SpaceChars == {" ", "\t", "\n", "\r"}

ToLowerChar(c) ==
    IF \E i \in 1..Len(UpperChars) : UpperChars[i] = c
    THEN LowerChars[CHOOSE i \in 1..Len(UpperChars) : UpperChars[i] = c]
    ELSE c

ToUpperChar(c) ==
    IF \E i \in 1..Len(LowerChars) : LowerChars[i] = c
    THEN UpperChars[CHOOSE i \in 1..Len(LowerChars) : LowerChars[i] = c]
    ELSE c

ToLower(s) == [i \in 1..Len(s) |-> ToLowerChar(s[i])]

ToUpper(s) == [i \in 1..Len(s) |-> ToUpperChar(s[i])]

RECURSIVE TrimLeft(_)
TrimLeft(s) ==
    IF s # <<>> /\ Head(s) \in SpaceChars THEN TrimLeft(Tail(s)) ELSE s

RECURSIVE TrimRight(_)
TrimRight(s) ==
    IF s # <<>> /\ s[Len(s)] \in SpaceChars
    THEN TrimRight(SubSeq(s, 1, Len(s) - 1))
    ELSE s

TrimSpace(s) == TrimRight(TrimLeft(s))

-----------------------------------------------------------------------------
\* String literals of type-mapping.go, as sequences of characters.
s_multiple_choice ==
    <<"m", "u", "l", "t", "i", "p", "l", "e", "-", "c", "h", "o", "i", "c", "e">>
s_true_false ==
    <<"t", "r", "u", "e", "-", "f", "a", "l", "s", "e">>
s_matching ==
    <<"m", "a", "t", "c", "h", "i", "n", "g">>
s_writing_short ==
    <<"w", "r", "i", "t", "i", "n", "g", "-", "s", "h", "o", "r", "t">>
s_writing ==
    <<"w", "r", "i", "t", "i", "n", "g">>
s_writing_long ==
    <<"w", "r", "i", "t", "i", "n", "g", "-", "l", "o", "n", "g">>
s_speaking ==
    <<"s", "p", "e", "a", "k", "i", "n", "g">>
s_listening ==
    <<"l", "i", "s", "t", "e", "n", "i", "n", "g">>
s_code_submission ==
    <<"c", "o", "d", "e", "-", "s", "u", "b", "m", "i", "s", "s", "i", "o", "n">>
s_image_upload ==
    <<"i", "m", "a", "g", "e", "-", "u", "p", "l", "o", "a", "d">>
s_line_match ==
    <<"l", "i", "n", "e", "-", "m", "a", "t", "c", "h">>
s_phoneme_build ==
    <<"p", "h", "o", "n", "e", "m", "e", "-", "b", "u", "i", "l", "d">>
s_drag_drop_ordering ==
    <<"d", "r", "a", "g", "-", "d", "r", "o", "p", "-", "o", "r", "d", "e", "r", "i", "n", "g">>
s_drag_and_drop ==
    <<"d", "r", "a", "g", "-", "a", "n", "d", "-", "d", "r", "o", "p">>
s_ordering ==
    <<"o", "r", "d", "e", "r", "i", "n", "g">>
s_drag_drop_categorization ==
    <<"d", "r", "a", "g", "-", "d", "r", "o", "p", "-", "c", "a", "t", "e", "g", "o", "r", "i", "z", "a", "t", "i", "o", "n">>
s_categorization ==
    <<"c", "a", "t", "e", "g", "o", "r", "i", "z", "a", "t", "i", "o", "n">>
s_drag_drop_fill_blank ==
    <<"d", "r", "a", "g", "-", "d", "r", "o", "p", "-", "f", "i", "l", "l", "-", "b", "l", "a", "n", "k">>
s_fill_blank ==
    <<"f", "i", "l", "l", "-", "b", "l", "a", "n", "k">>
s_drag_drop_labeling ==
    <<"d", "r", "a", "g", "-", "d", "r", "o", "p", "-", "l", "a", "b", "e", "l", "i", "n", "g">>
s_labeling ==
    <<"l", "a", "b", "e", "l", "i", "n", "g">>
s_drag_drop_image_caption ==
    <<"d", "r", "a", "g", "-", "d", "r", "o", "p", "-", "i", "m", "a", "g", "e", "-", "c", "a", "p", "t", "i", "o", "n">>
s_image_caption ==
    <<"i", "m", "a", "g", "e", "-", "c", "a", "p", "t", "i", "o", "n">>
s_generic_assignment ==
    <<"g", "e", "n", "e", "r", "i", "c", "-", "a", "s", "s", "i", "g", "n", "m", "e", "n", "t">>
s_assignment ==
    <<"a", "s", "s", "i", "g", "n", "m", "e", "n", "t">>
s_essay ==
    <<"e", "s", "s", "a", "y">>
s_quiz ==
    <<"q", "u", "i", "z">>
s_presentation ==
    <<"p", "r", "e", "s", "e", "n", "t", "a", "t", "i", "o", "n">>
s_comprehension ==
    <<"c", "o", "m", "p", "r", "e", "h", "e", "n", "s", "i", "o", "n">>
s_mcq ==
    <<"m", "c", "q">>
s_mc ==
    <<"m", "c">>
s_tf ==
    <<"t", "f">>
s_t_f ==
    <<"t", "/", "f">>
s_match ==
    <<"m", "a", "t", "c", "h">>
s_short_essay ==
    <<"s", "h", "o", "r", "t", "-", "e", "s", "s", "a", "y">>
s_code ==
    <<"c", "o", "d", "e">>
s_programming ==
    <<"p", "r", "o", "g", "r", "a", "m", "m", "i", "n", "g">>
s_drag_drop ==
    <<"d", "r", "a", "g", "-", "d", "r", "o", "p">>
s_dnd ==
    <<"d", "n", "d">>
s_oral ==
    <<"o", "r", "a", "l">>
s_audio ==
    <<"a", "u", "d", "i", "o">>
s_image ==
    <<"i", "m", "a", "g", "e">>
s_upload ==
    <<"u", "p", "l", "o", "a", "d">>

\* initializeDefaultMappings: the directMappings table, in source order.
directMappings ==
    <<
      [PortableType |-> s_multiple_choice, LMSType |-> s_multiple_choice, LMSSubtype |-> <<>>,
       Description |-> "Multiple choice questions", Deprecated |-> FALSE],
      [PortableType |-> s_true_false, LMSType |-> s_true_false, LMSSubtype |-> <<>>,
       Description |-> "True/false questions", Deprecated |-> FALSE],
      [PortableType |-> s_matching, LMSType |-> s_matching, LMSSubtype |-> <<>>,
       Description |-> "Match items from two lists", Deprecated |-> FALSE],
      [PortableType |-> s_writing_short, LMSType |-> s_writing, LMSSubtype |-> <<>>,
       Description |-> "Short writing assignments", Deprecated |-> FALSE],
      [PortableType |-> s_writing_long, LMSType |-> s_writing_long, LMSSubtype |-> <<>>,
       Description |-> "Extended writing assignments", Deprecated |-> FALSE],
      [PortableType |-> s_speaking, LMSType |-> s_speaking, LMSSubtype |-> <<>>,
       Description |-> "Oral presentation assignments", Deprecated |-> FALSE],
      [PortableType |-> s_listening, LMSType |-> s_listening, LMSSubtype |-> <<>>,
       Description |-> "Audio comprehension exercises", Deprecated |-> FALSE],
      [PortableType |-> s_code_submission, LMSType |-> s_code_submission, LMSSubtype |-> <<>>,
       Description |-> "Programming assignments", Deprecated |-> FALSE],
      [PortableType |-> s_image_upload, LMSType |-> s_image_upload, LMSSubtype |-> <<>>,
       Description |-> "Image upload assignments", Deprecated |-> FALSE],
      [PortableType |-> s_line_match, LMSType |-> s_line_match, LMSSubtype |-> <<>>,
       Description |-> "Line matching exercises (LMS specific)", Deprecated |-> FALSE],
      [PortableType |-> s_phoneme_build, LMSType |-> s_phoneme_build, LMSSubtype |-> <<>>,
       Description |-> "Phoneme building exercises (LMS specific)", Deprecated |-> FALSE],
      [PortableType |-> s_drag_drop_ordering, LMSType |-> s_drag_and_drop, LMSSubtype |-> s_ordering,
       Description |-> "Drag and drop ordering", Deprecated |-> FALSE],
      [PortableType |-> s_drag_drop_categorization, LMSType |-> s_drag_and_drop, LMSSubtype |-> s_categorization,
       Description |-> "Drag and drop categorization", Deprecated |-> FALSE],
      [PortableType |-> s_drag_drop_fill_blank, LMSType |-> s_drag_and_drop, LMSSubtype |-> s_fill_blank,
       Description |-> "Drag and drop fill in blanks", Deprecated |-> FALSE],
      [PortableType |-> s_drag_drop_labeling, LMSType |-> s_drag_and_drop, LMSSubtype |-> s_labeling,
       Description |-> "Drag and drop labeling", Deprecated |-> FALSE],
      [PortableType |-> s_drag_drop_image_caption, LMSType |-> s_drag_and_drop, LMSSubtype |-> s_image_caption,
       Description |-> "Drag and drop image captions", Deprecated |-> FALSE],
      [PortableType |-> s_generic_assignment, LMSType |-> s_assignment, LMSSubtype |-> <<>>,
       Description |-> "Generic assignment type", Deprecated |-> FALSE],
      [PortableType |-> s_essay, LMSType |-> s_writing_long, LMSSubtype |-> <<>>,
       Description |-> "Essay assignment (mapped to writing-long)", Deprecated |-> FALSE],
      [PortableType |-> s_quiz, LMSType |-> s_multiple_choice, LMSSubtype |-> <<>>,
       Description |-> "Quiz assignment (mapped to multiple-choice)", Deprecated |-> FALSE],
      [PortableType |-> s_presentation, LMSType |-> s_speaking, LMSSubtype |-> <<>>,
       Description |-> "Presentation (mapped to speaking)", Deprecated |-> FALSE],
      [PortableType |-> s_comprehension, LMSType |-> s_listening, LMSSubtype |-> <<>>,
       Description |-> "Comprehension exercise (mapped to listening)", Deprecated |-> FALSE]
    >>

\* initializeDefaultMappings: the alias table literal, as <<alias, target>> pairs.
aliasTable ==
    <<
      <<s_mcq, s_multiple_choice>>,
      <<s_mc, s_multiple_choice>>,
      <<s_tf, s_true_false>>,
      <<s_t_f, s_true_false>>,
      <<s_match, s_matching>>,
      <<s_essay, s_writing_long>>,
      <<s_short_essay, s_writing_short>>,
      <<s_code, s_code_submission>>,
      <<s_programming, s_code_submission>>,
      <<s_drag_drop, s_drag_drop_ordering>>,
      <<s_dnd, s_drag_drop_ordering>>,
      <<s_oral, s_speaking>>,
      <<s_audio, s_listening>>,
      <<s_image, s_image_upload>>,
      <<s_upload, s_image_upload>>
    >>

-----------------------------------------------------------------------------
(* The registry: NewAssignmentTypeManager / initializeDefaultMappings *)

\* for _, mapping := range directMappings { atm.mappings[mapping.PortableType] = mapping }
\* a later row overwrites an earlier row with the same key
BuildMappings(rows) ==
    [k \in {rows[i].PortableType : i \in 1..Len(rows)} |->
        rows[CHOOSE i \in 1..Len(rows) :
                /\ rows[i].PortableType = k
                /\ \A j \in 1..Len(rows) : rows[j].PortableType = k => j <= i]]

\* atm.aliases = map[string]string{...}
BuildAliases(pairs) ==
    [k \in {pairs[i][1] : i \in 1..Len(pairs)} |->
        pairs[CHOOSE i \in 1..Len(pairs) : pairs[i][1] = k][2]]

NewAssignmentTypeManager ==
    [mappings |-> BuildMappings(directMappings),
     aliases  |-> BuildAliases(aliasTable)]

\* the zero value TypeMapping{}
EmptyTypeMapping ==
    [PortableType |-> <<>>, LMSType |-> <<>>, LMSSubtype |-> <<>>,
     Description |-> "", Deprecated |-> FALSE]

\* fmt.Errorf("unknown assignment type: %s", portableType)
UnknownTypeError(portableType) ==
    [isNil |-> FALSE, msg |-> "unknown assignment type: ", detail |-> portableType]

\* the nil error
NilError == [isNil |-> TRUE, msg |-> "", detail |-> <<>>]

\* ResolveType with the alias table consulted before the canonical keys
ResolveTypeAliasFirst(atm, portableType) ==
    LET normalizedType == ToLower(TrimSpace(portableType)) IN
    IF /\ normalizedType \in DOMAIN atm.aliases
       /\ atm.aliases[normalizedType] \in DOMAIN atm.mappings
    THEN [mapping |-> atm.mappings[atm.aliases[normalizedType]], err |-> NilError]
    ELSE IF normalizedType \in DOMAIN atm.mappings
    THEN [mapping |-> atm.mappings[normalizedType], err |-> NilError]
    ELSE [mapping |-> EmptyTypeMapping, err |-> UnknownTypeError(portableType)]

\* ResolveType without the alias lookup
ResolveTypeNoAlias(atm, portableType) ==
    LET normalizedType == ToLower(TrimSpace(portableType)) IN
    IF normalizedType \in DOMAIN atm.mappings
    THEN [mapping |-> atm.mappings[normalizedType], err |-> NilError]
    ELSE [mapping |-> EmptyTypeMapping, err |-> UnknownTypeError(portableType)]

\* ResolveType that lowercases the input but does not trim it
ResolveTypeNoTrim(atm, portableType) ==
    LET normalizedType == ToLower(portableType) IN
    IF normalizedType \in DOMAIN atm.mappings
    THEN [mapping |-> atm.mappings[normalizedType], err |-> NilError]
    ELSE IF /\ normalizedType \in DOMAIN atm.aliases
            /\ atm.aliases[normalizedType] \in DOMAIN atm.mappings
    THEN [mapping |-> atm.mappings[atm.aliases[normalizedType]], err |-> NilError]
    ELSE [mapping |-> EmptyTypeMapping, err |-> UnknownTypeError(portableType)]

ResolveType(atm, portableType) ==
    LET normalizedType == ToLower(TrimSpace(portableType)) IN
    IF normalizedType \in DOMAIN atm.mappings
    THEN [mapping |-> atm.mappings[normalizedType], err |-> NilError]
    ELSE IF /\ normalizedType \in DOMAIN atm.aliases
            /\ atm.aliases[normalizedType] \in DOMAIN atm.mappings
    THEN [mapping |-> atm.mappings[atm.aliases[normalizedType]], err |-> NilError]
    ELSE [mapping |-> EmptyTypeMapping, err |-> UnknownTypeError(portableType)]

ValidatePortableType(atm, portableType) ==
    ResolveType(atm, portableType).err.isNil

ConvertToLMSFormat(atm, portableType) ==
    LET r == ResolveType(atm, portableType) IN
    IF ~r.err.isNil
    THEN [lmsType |-> <<>>, lmsSubtype |-> <<>>, err |-> r.err]
    ELSE [lmsType |-> r.mapping.LMSType, lmsSubtype |-> r.mapping.LMSSubtype,
          err |-> NilError]

-----------------------------------------------------------------------------
(* Listing: GetLMSTypes (type-mapping.go) *)

\* the keys of the map lmsTypes after the first loop, which visits the keys of
\* atm.mappings in the order mappingOrder
LMSTypeSet(atm, mappingOrder) ==
    {atm.mappings[mappingOrder[i]].LMSType : i \in DOMAIN mappingOrder}

\* GetLMSTypes that appends in the first loop, without the map lmsTypes
GetLMSTypesNoSet(atm, mappingOrder, typeOrder) ==
    [i \in DOMAIN mappingOrder |-> atm.mappings[mappingOrder[i]].LMSType]

\* typeOrder is the order in which the second range loop would visit any
\* strings that are keys of the map lmsTypes
GetLMSTypes(atm, mappingOrder, typeOrder) ==
    SelectSeq(typeOrder, LAMBDA t : t \in LMSTypeSet(atm, mappingOrder))

-----------------------------------------------------------------------------
(* Suggestions: GetSuggestedTypes (type-mapping.go) *)

\* strings.Contains(s, substr)
Contains(s, substr) ==
    \E i \in 0..(Len(s) - Len(substr)) :
        SubSeq(s, i + 1, i + Len(substr)) = substr

\* the keys of a map that match the input in either direction
Matching(keys, input) ==
    {k \in keys : Contains(k, input) \/ Contains(input, k)}

\* the orders in which a range loop over a Go map can visit the keys S
Orders(S) ==
    {f \in [1..Cardinality(S) -> S] :
        \A i, j \in 1..Cardinality(S) : f[i] = f[j] => i = j}

\* the "Remove duplicates" loop: the first occurrence of each entry is kept
RECURSIVE Unique(_, _)
Unique(suggestions, seen) ==
    IF suggestions = <<>> THEN <<>>
    ELSE IF Head(suggestions) \in seen THEN Unique(Tail(suggestions), seen)
    ELSE <<Head(suggestions)>>
            \o Unique(Tail(suggestions), seen \cup {Head(suggestions)})

\* GetSuggestedTypes without the removal of duplicates
GetSuggestedTypesNoUnique(manager, input, mappingOrder, aliasOrder) ==
    mappingOrder \o [i \in DOMAIN aliasOrder |-> manager.aliases[aliasOrder[i]]]

\* mappingOrder and aliasOrder are the orders in which the two range loops
\* visit the matching keys of atm.mappings and atm.aliases
GetSuggestedTypes(manager, input, mappingOrder, aliasOrder) ==
    Unique(mappingOrder
              \o [i \in DOMAIN aliasOrder |-> manager.aliases[aliasOrder[i]]],
           {})

\* every result a call of GetSuggestedTypes can give for an input
SuggestionResults(manager, input) ==
    {GetSuggestedTypes(manager, input, mo, ao) :
        mo \in Orders(Matching(DOMAIN manager.mappings, ToLower(input))),
        ao \in Orders(Matching(DOMAIN manager.aliases, ToLower(input)))}

-----------------------------------------------------------------------------
(* The package validator: validateAssignmentPackage (commands.go) *)

\* a nil interface{} value in Assignment.Questions
NilPayload == [kind |-> "nil", size |-> 0]

\* ValidationInfo{IsValid: true, ValidatorVersion: "1.0.0", Score: 100}
\* (ValidatedAt, the wall-clock time of the call, is not modelled)
NewValidationInfo ==
    [IsValid |-> TRUE, ValidatorVersion |-> "1.0.0", Score |-> 100,
     Errors |-> <<>>, Warnings |-> <<>>]

\* append to Errors, clear IsValid, deduct
AddError(v, msg, deduction) ==
    [v EXCEPT !.Errors = Append(@, msg), !.IsValid = FALSE,
              !.Score = @ - deduction]

\* append to Warnings, deduct
AddWarning(v, msg, deduction) ==
    [v EXCEPT !.Warnings = Append(@, msg), !.Score = @ - deduction]

\* validateAssignmentPackage with the title deduction added instead of subtracted
validateAssignmentPackageSignSlip(pkg) ==
    LET a  == pkg.Assignment
        v0 == NewValidationInfo
        v1 == IF a.Title = <<>>
              THEN AddError(v0, "Assignment title is required", -20) ELSE v0
        v2 == IF a.Type = <<>>
              THEN AddError(v1, "Assignment type is required", 20) ELSE v1
        v3 == IF a.Type = s_multiple_choice /\ a.Questions = NilPayload
              THEN AddError(v2, "Multiple choice questions are required", 30)
              ELSE IF a.Type = s_matching /\ a.Questions = NilPayload
              THEN AddError(v2, "Matching items are required", 30)
              ELSE v2
        v4 == IF a.Description = <<>>
              THEN AddWarning(v3, "Assignment description is recommended", 5)
              ELSE v3
        v5 == IF a.Points <= 0
              THEN AddWarning(v4, "Assignment should have positive points", 10)
              ELSE v4
    IN  v5

\* validateAssignmentPackage requiring questions whatever the type
validateAssignmentPackageNoSwitch(pkg) ==
    LET a  == pkg.Assignment
        v0 == NewValidationInfo
        v1 == IF a.Title = <<>>
              THEN AddError(v0, "Assignment title is required", 20) ELSE v0
        v2 == IF a.Type = <<>>
              THEN AddError(v1, "Assignment type is required", 20) ELSE v1
        v3 == IF a.Questions = NilPayload
              THEN AddError(v2, "Multiple choice questions are required", 30)
              ELSE v2
        v4 == IF a.Description = <<>>
              THEN AddWarning(v3, "Assignment description is recommended", 5)
              ELSE v3
        v5 == IF a.Points <= 0
              THEN AddWarning(v4, "Assignment should have positive points", 10)
              ELSE v4
    IN  v5

\* validateAssignmentPackage treating non-positive points as blocking
validateAssignmentPackagePointsBlock(pkg) ==
    LET a  == pkg.Assignment
        v0 == NewValidationInfo
        v1 == IF a.Title = <<>>
              THEN AddError(v0, "Assignment title is required", 20) ELSE v0
        v2 == IF a.Type = <<>>
              THEN AddError(v1, "Assignment type is required", 20) ELSE v1
        v3 == IF a.Type = s_multiple_choice /\ a.Questions = NilPayload
              THEN AddError(v2, "Multiple choice questions are required", 30)
              ELSE IF a.Type = s_matching /\ a.Questions = NilPayload
              THEN AddError(v2, "Matching items are required", 30)
              ELSE v2
        v4 == IF a.Description = <<>>
              THEN AddWarning(v3, "Assignment description is recommended", 5)
              ELSE v3
        v5 == IF a.Points <= 0
              THEN [AddWarning(v4, "Assignment should have positive points", 10)
                        EXCEPT !.IsValid = FALSE]
              ELSE v4
    IN  v5

\* validateAssignmentPackage without the check of the type
validateAssignmentPackageNoTypeCheck(pkg) ==
    LET a  == pkg.Assignment
        v0 == NewValidationInfo
        v1 == IF a.Title = <<>>
              THEN AddError(v0, "Assignment title is required", 20) ELSE v0
        v3 == IF a.Type = s_multiple_choice /\ a.Questions = NilPayload
              THEN AddError(v1, "Multiple choice questions are required", 30)
              ELSE IF a.Type = s_matching /\ a.Questions = NilPayload
              THEN AddError(v1, "Matching items are required", 30)
              ELSE v1
        v4 == IF a.Description = <<>>
              THEN AddWarning(v3, "Assignment description is recommended", 5)
              ELSE v3
        v5 == IF a.Points <= 0
              THEN AddWarning(v4, "Assignment should have positive points", 10)
              ELSE v4
    IN  v5

\* validateAssignmentPackage warning about points <= 1 instead of points <= 0
validateAssignmentPackagePointsOffByOne(pkg) ==
    LET a  == pkg.Assignment
        v0 == NewValidationInfo
        v1 == IF a.Title = <<>>
              THEN AddError(v0, "Assignment title is required", 20) ELSE v0
        v2 == IF a.Type = <<>>
              THEN AddError(v1, "Assignment type is required", 20) ELSE v1
        v3 == IF a.Type = s_multiple_choice /\ a.Questions = NilPayload
              THEN AddError(v2, "Multiple choice questions are required", 30)
              ELSE IF a.Type = s_matching /\ a.Questions = NilPayload
              THEN AddError(v2, "Matching items are required", 30)
              ELSE v2
        v4 == IF a.Description = <<>>
              THEN AddWarning(v3, "Assignment description is recommended", 5)
              ELSE v3
        v5 == IF a.Points <= 1
              THEN AddWarning(v4, "Assignment should have positive points", 10)
              ELSE v4
    IN  v5

validateAssignmentPackage(pkg) ==
    LET a  == pkg.Assignment
        v0 == NewValidationInfo
        \* Basic validation
        v1 == IF a.Title = <<>>
              THEN AddError(v0, "Assignment title is required", 20) ELSE v0
        v2 == IF a.Type = <<>>
              THEN AddError(v1, "Assignment type is required", 20) ELSE v1
        \* Type-specific validation: switch pkg.Assignment.Type
        v3 == IF a.Type = s_multiple_choice /\ a.Questions = NilPayload
              THEN AddError(v2, "Multiple choice questions are required", 30)
              ELSE IF a.Type = s_matching /\ a.Questions = NilPayload
              THEN AddError(v2, "Matching items are required", 30)
              ELSE v2
        \* Warnings
        v4 == IF a.Description = <<>>
              THEN AddWarning(v3, "Assignment description is recommended", 5)
              ELSE v3
        v5 == IF a.Points <= 0
              THEN AddWarning(v4, "Assignment should have positive points", 10)
              ELSE v4
    IN  v5

-----------------------------------------------------------------------------
(* The format converter: convertToLMSFormat (sync.go) *)

\* t.Format(time.RFC3339)
FormatRFC3339(t) == <<"RFC3339", t>>

\* OptionalEntry that treats a pointer to zero as absent
OptionalEntryOmitZero(key, ptr, value) ==
    IF ptr # <<>> /\ ptr[1] # 0 THEN key :> value ELSE <<>>

\* the optional entry of the wire record for a pointer field: absent for nil
OptionalEntry(key, ptr, value) ==
    IF ptr # <<>> THEN key :> value ELSE <<>>

\* the entries of the wire record that are always present
WireBase(pkg, lmsType, lmsSubtype) ==
    LET assignment == pkg.Assignment IN
    [title                |-> assignment.Title,
     description          |-> assignment.Description,
     type                 |-> lmsType,
     subtype              |-> lmsSubtype,
     category             |-> assignment.Category,
     difficulty           |-> assignment.Difficulty,
     points               |-> assignment.Points,
     instructions         |-> assignment.Instructions,
     criteria             |-> assignment.Criteria,
     autoGrade            |-> assignment.AutoGrade,
     showFeedback         |-> assignment.ShowFeedback,
     shuffleQuestions     |-> assignment.ShuffleQuestions,
     allowReview          |-> assignment.AllowReview,
     published            |-> assignment.Published,
     quarter              |-> assignment.Quarter,
     trackAttempts        |-> assignment.TrackAttempts,
     trackConfidence      |-> assignment.TrackConfidence,
     trackTimeSpent       |-> assignment.TrackTimeSpent,
     learningObjectives   |-> assignment.LearningObjectives,
     prerequisites        |-> assignment.Prerequisites,
     recommendedCourses   |-> assignment.RecommendedCourses,
     tags                 |-> assignment.Tags,
     questions            |-> assignment.Questions,
     codeSubmissionConfig |-> assignment.CodeSubmissionConfig,
     templateId           |-> pkg.Metadata.ID,
     version              |-> pkg.Metadata.Version,
     sourceHash           |-> pkg.Metadata.SourceHash,
     importedFrom         |-> "assignment-toolkit",
     importedAt           |-> "time.Now()"]

\* the entries added for the non-nil time and integer fields
WireOptional(assignment) ==
    OptionalEntry("dueDate", assignment.DueDate,
                  FormatRFC3339(assignment.DueDate[1]))
    @@ OptionalEntry("availableFrom", assignment.AvailableFrom,
                     FormatRFC3339(assignment.AvailableFrom[1]))
    @@ OptionalEntry("availableTo", assignment.AvailableTo,
                     FormatRFC3339(assignment.AvailableTo[1]))
    @@ OptionalEntry("timeLimit", assignment.TimeLimit, assignment.TimeLimit[1])
    @@ OptionalEntry("maxAttempts", assignment.MaxAttempts,
                     assignment.MaxAttempts[1])

\* convertToLMSFormat whose fallback passes the normalized type on
convertToLMSFormatNormalizedFallback(manager, pkg) ==
    LET assignment == pkg.Assignment
        c == ConvertToLMSFormat(manager, assignment.Type)
        lmsType == IF c.err.isNil THEN c.lmsType
                   ELSE ToLower(TrimSpace(assignment.Type))
        lmsSubtype == IF c.err.isNil THEN c.lmsSubtype ELSE assignment.Subtype
    IN  WireBase(pkg, lmsType, lmsSubtype) @@ WireOptional(assignment)

\* convertToLMSFormat that lets a subtype stored in the package override the
\* subtype of the mapping
convertToLMSFormatPackageSubtype(manager, pkg) ==
    LET assignment == pkg.Assignment
        c == ConvertToLMSFormat(manager, assignment.Type)
        lmsType == IF c.err.isNil THEN c.lmsType ELSE assignment.Type
        lmsSubtype == IF c.err.isNil /\ assignment.Subtype = <<>>
                      THEN c.lmsSubtype ELSE assignment.Subtype
    IN  WireBase(pkg, lmsType, lmsSubtype) @@ WireOptional(assignment)

\* manager is the registry returned by GetTypeManager()
convertToLMSFormat(manager, pkg) ==
    LET assignment == pkg.Assignment
        c == ConvertToLMSFormat(manager, assignment.Type)
        \* Fallback to original type if mapping fails
        lmsType == IF c.err.isNil THEN c.lmsType ELSE assignment.Type
        lmsSubtype == IF c.err.isNil THEN c.lmsSubtype ELSE assignment.Subtype
    IN  WireBase(pkg, lmsType, lmsSubtype) @@ WireOptional(assignment)

-----------------------------------------------------------------------------
(* The sync client: SyncAssignment, uploadResources, BatchSyncAssignments *)

\* fmt.Errorf(msg, detail)
Errorf(msg, detail) == [isNil |-> FALSE, msg |-> msg, detail |-> detail]

\* err.Error()
ErrorText(err) == <<err.msg, err.detail>>

\* json.Marshal rejects a map[interface{}]interface{}, which is what yaml.v2
\* builds for a mapping inside an interface{} field
Marshalable(value) == value.kind # "yamlmap"

\* The outcome of one HTTP exchange, as the environment decides it:
\*   kind      "requestError" (http.NewRequest), "transportError" (Do),
\*             "readError" (ReadAll) or "response"
\*   status    the status code of the response
\*   parseable whether the body is JSON
\*   id        the id in the body
\* For uploadResource the kind "openError" (os.Open) comes first.
HTTPFailure(exchange) ==
    IF exchange.kind = "requestError"
    THEN Errorf("failed to create request: ", <<>>)
    ELSE IF exchange.kind = "transportError"
    THEN Errorf("failed to send request: ", <<>>)
    ELSE IF exchange.kind = "readError"
    THEN Errorf("failed to read response: ", <<>>)
    ELSE IF exchange.status # 200 /\ exchange.status # 201
    THEN Errorf("API error (%d): ", <<exchange.status>>)
    ELSE IF ~exchange.parseable
    THEN Errorf("failed to parse response: ", <<>>)
    ELSE NilError

\* a request the client sent: the create request (resource 0) or the upload of
\* the resource with the given index
Request(path, resource) == [path |-> path, resource |-> resource]

\* whether an exchange gets as far as c.HTTPClient.Do(req)
Sent(exchange) == exchange.kind \notin {"openError", "requestError"}

uploadResource(assignmentID, resource, exchange) ==
    IF exchange.kind = "openError"
    THEN [id |-> "", err |-> Errorf("failed to open file: ", <<>>)]
    ELSE IF ~HTTPFailure(exchange).isNil
    THEN [id |-> "", err |-> HTTPFailure(exchange)]
    ELSE [id |-> exchange.id, err |-> NilError]

\* uploadLoop that goes on with the next resource after a failed upload
RECURSIVE uploadLoopContinue(_, _, _, _, _, _)
uploadLoopContinue(assignmentID, resources, exchanges, i, resourceIDs, requests) ==
    IF i > Len(resources)
    THEN [ids |-> resourceIDs, err |-> NilError, requests |-> requests,
          attempted |-> {}]
    ELSE IF resources[i].LocalPath = ""
    THEN uploadLoopContinue(assignmentID, resources, exchanges, i + 1,
                            resourceIDs, requests)
    ELSE LET u == uploadResource(assignmentID, resources[i], exchanges[i])
             sent == IF Sent(exchanges[i])
                     THEN Append(requests, Request("/api/resources", i))
                     ELSE requests
             rest == uploadLoopContinue(assignmentID, resources, exchanges,
                        i + 1,
                        IF u.err.isNil THEN Append(resourceIDs, u.id)
                        ELSE resourceIDs,
                        sent)
         IN  [rest EXCEPT
                !.attempted = @ \cup {i},
                !.ids = IF u.err.isNil THEN @ ELSE resourceIDs,
                !.err = IF u.err.isNil THEN @
                        ELSE Errorf("failed to upload %s: ",
                                    <<resources[i].Title, ErrorText(u.err)>>)]

\* the loop of uploadResources from resource i on; exchanges[i] is the
\* exchange the environment answers the upload of resources[i] with.
\* requests are the requests sent so far; attempted are the resources
\* uploadResource was called for.
RECURSIVE uploadLoop(_, _, _, _, _, _)
uploadLoop(assignmentID, resources, exchanges, i, resourceIDs, requests) ==
    IF i > Len(resources)
    THEN [ids |-> resourceIDs, err |-> NilError, requests |-> requests,
          attempted |-> {}]
    ELSE IF resources[i].LocalPath = ""
    THEN uploadLoop(assignmentID, resources, exchanges, i + 1, resourceIDs,
                    requests)
    ELSE LET u == uploadResource(assignmentID, resources[i], exchanges[i])
             sent == IF Sent(exchanges[i])
                     THEN Append(requests, Request("/api/resources", i))
                     ELSE requests
         IN  IF ~u.err.isNil
             THEN [ids |-> resourceIDs,
                   err |-> Errorf("failed to upload %s: ",
                                  <<resources[i].Title, ErrorText(u.err)>>),
                   requests |-> sent,
                   attempted |-> {i}]
             ELSE LET rest == uploadLoop(assignmentID, resources, exchanges,
                                         i + 1, Append(resourceIDs, u.id), sent)
                  IN  [rest EXCEPT !.attempted = @ \cup {i}]

uploadResources(assignmentID, resources, exchanges, requests) ==
    uploadLoop(assignmentID, resources, exchanges, 1, <<>>, requests)

\* SyncAssignment that uploads the resources whatever the create request
\* returned
SyncAssignmentUploadAnyway(manager, pkg, net) ==
    LET lmsAssignment == convertToLMSFormat(manager, pkg)
        created == IF Sent(net.create)
                   THEN <<Request("/api/assignments", 0)>> ELSE <<>>
        up == uploadResources(net.create.id, pkg.Resources, net.uploads,
                              created)
    IN
    IF ~(Marshalable(lmsAssignment["questions"])
            /\ Marshalable(lmsAssignment["codeSubmissionConfig"]))
    THEN [result |-> <<>>,
          err |-> Errorf("failed to marshal assignment: ", <<>>),
          requests |-> <<>>, attempted |-> {}]
    ELSE IF ~HTTPFailure(net.create).isNil
    THEN [result |-> <<>>, err |-> HTTPFailure(net.create),
          requests |-> up.requests, attempted |-> up.attempted]
    ELSE LET result == [AssignmentID |-> net.create.id, ResourceIDs |-> <<>>,
                        Status |-> "success",
                        Message |-> <<net.create.message>>]
         IN  IF Len(pkg.Resources) = 0
             THEN [result |-> <<result>>, err |-> NilError,
                   requests |-> created, attempted |-> {}]
             ELSE IF ~up.err.isNil
             THEN [result |-> <<[result EXCEPT
                        !.Status = "partial",
                        !.Message = @ \o <<" Warning: Resource upload failed: ",
                                           ErrorText(up.err)>>]>>,
                   err |-> NilError,
                   requests |-> up.requests, attempted |-> up.attempted]
             ELSE [result |-> <<[result EXCEPT !.ResourceIDs = up.ids]>>,
                   err |-> NilError,
                   requests |-> up.requests, attempted |-> up.attempted]

\* manager is the registry GetTypeManager() returns inside convertToLMSFormat;
\* net.create is the exchange of the create request, net.uploads those of the
\* resource uploads.  The result is <<>> for a nil *ImportResult; requests
\* are the requests that were sent to the LMS, in their order, and attempted
\* the resources whose upload was started.
SyncAssignment(manager, pkg, net) ==
    LET lmsAssignment == convertToLMSFormat(manager, pkg)
        created == IF Sent(net.create)
                   THEN <<Request("/api/assignments", 0)>> ELSE <<>>
    IN
    IF ~(Marshalable(lmsAssignment["questions"])
            /\ Marshalable(lmsAssignment["codeSubmissionConfig"]))
    THEN [result |-> <<>>,
          err |-> Errorf("failed to marshal assignment: ", <<>>),
          requests |-> <<>>, attempted |-> {}]
    ELSE IF ~HTTPFailure(net.create).isNil
    THEN [result |-> <<>>, err |-> HTTPFailure(net.create),
          requests |-> created, attempted |-> {}]
    ELSE LET result == [AssignmentID |-> net.create.id, ResourceIDs |-> <<>>,
                        Status |-> "success",
                        Message |-> <<net.create.message>>]
             up == uploadResources(net.create.id, pkg.Resources, net.uploads,
                                   created)
         IN  IF Len(pkg.Resources) = 0
             THEN [result |-> <<result>>, err |-> NilError,
                   requests |-> created, attempted |-> {}]
             ELSE IF ~up.err.isNil
             THEN [result |-> <<[result EXCEPT
                        !.Status = "partial",
                        !.Message = @ \o <<" Warning: Resource upload failed: ",
                                           ErrorText(up.err)>>]>>,
                   err |-> NilError,
                   requests |-> up.requests, attempted |-> up.attempted]
             ELSE [result |-> <<[result EXCEPT !.ResourceIDs = up.ids]>>,
                   err |-> NilError,
                   requests |-> up.requests, attempted |-> up.attempted]

\* BatchImportResult{TotalCount: len(packages), Results: make([]ImportResult, 0, ...)}
\* (BatchID, StartedAt and CompletedAt are not modelled)
NewBatchImportResult(packages) ==
    [TotalCount |-> Len(packages), SuccessCount |-> 0, FailureCount |-> 0,
     Results |-> <<>>]

\* BatchStep that counts a partially synced item as a failure
BatchStepPartialFails(result, manager, pkg, net) ==
    LET s == SyncAssignment(manager, pkg, net) IN
    IF ~s.err.isNil
    THEN [result EXCEPT
            !.FailureCount = @ + 1,
            !.Results = Append(@, [AssignmentID |-> "", ResourceIDs |-> <<>>,
                                   Status |-> "failed",
                                   Message |-> ErrorText(s.err)])]
    ELSE IF s.result[1].Status = "partial"
    THEN [result EXCEPT
            !.FailureCount = @ + 1,
            !.Results = Append(@, s.result[1])]
    ELSE [result EXCEPT
            !.SuccessCount = @ + 1,
            !.Results = Append(@, s.result[1])]

\* one iteration of the loop of BatchSyncAssignments
BatchStep(result, manager, pkg, net) ==
    LET s == SyncAssignment(manager, pkg, net) IN
    IF ~s.err.isNil
    THEN [result EXCEPT
            !.FailureCount = @ + 1,
            !.Results = Append(@, [AssignmentID |-> "", ResourceIDs |-> <<>>,
                                   Status |-> "failed",
                                   Message |-> ErrorText(s.err)])]
    ELSE [result EXCEPT
            !.SuccessCount = @ + 1,
            !.Results = Append(@, s.result[1])]

\* BatchStep that stops the batch at the first failed item
RECURSIVE BatchLoopAbortOnError(_, _, _, _, _)
BatchLoopAbortOnError(result, manager, packages, nets, i) ==
    IF i > Len(packages) THEN result
    ELSE LET r == BatchStep(result, manager, packages[i], nets[i]) IN
         IF r.FailureCount > result.FailureCount THEN r
         ELSE BatchLoopAbortOnError(r, manager, packages, nets, i + 1)

\* for _, pkg := range packages, from item i on
RECURSIVE BatchLoop(_, _, _, _, _)
BatchLoop(result, manager, packages, nets, i) ==
    IF i > Len(packages) THEN result
    ELSE BatchLoop(BatchStep(result, manager, packages[i], nets[i]),
                   manager, packages, nets, i + 1)

\* nets[i] is what the environment answers the requests of packages[i] with;
\* the error result is always nil
BatchSyncAssignments(manager, packages, nets) ==
    [result |-> BatchLoop(NewBatchImportResult(packages), manager, packages,
                          nets, 1),
     err |-> NilError]

-----------------------------------------------------------------------------
(* The content hasher: calculateHash (commands.go) *)

\* a field tagged omitempty: left out when it holds its empty value
OmitEmpty(key, value, empty) ==
    IF value # empty THEN key :> value ELSE <<>>

\* the JSON object json.Marshal writes for an Assignment, by its json tags
JSONObject(a) ==
    [title |-> a.Title, type |-> a.Type, points |-> a.Points,
     auto_grade |-> a.AutoGrade, show_feedback |-> a.ShowFeedback,
     shuffle_questions |-> a.ShuffleQuestions, allow_review |-> a.AllowReview,
     track_attempts |-> a.TrackAttempts,
     track_confidence |-> a.TrackConfidence,
     track_time_spent |-> a.TrackTimeSpent, published |-> a.Published]
    @@ OmitEmpty("description", a.Description, <<>>)
    @@ OmitEmpty("subtype", a.Subtype, <<>>)
    @@ OmitEmpty("category", a.Category, <<>>)
    @@ OmitEmpty("difficulty", a.Difficulty, "")
    @@ OmitEmpty("questions", a.Questions, NilPayload)
    @@ OmitEmpty("instructions", a.Instructions, <<>>)
    @@ OmitEmpty("criteria", a.Criteria, <<>>)
    @@ OmitEmpty("code_submission_config", a.CodeSubmissionConfig, NilPayload)
    @@ OmitEmpty("time_limit", a.TimeLimit, <<>>)
    @@ OmitEmpty("max_attempts", a.MaxAttempts, <<>>)
    @@ OmitEmpty("due_date", a.DueDate, <<>>)
    @@ OmitEmpty("available_from", a.AvailableFrom, <<>>)
    @@ OmitEmpty("available_to", a.AvailableTo, <<>>)
    @@ OmitEmpty("quarter", a.Quarter, "")
    @@ OmitEmpty("learning_objectives", a.LearningObjectives, <<>>)
    @@ OmitEmpty("prerequisites", a.Prerequisites, <<>>)
    @@ OmitEmpty("recommended_courses", a.RecommendedCourses, <<>>)
    @@ OmitEmpty("tags", a.Tags, <<>>)

\* json.Marshal(assignment): no bytes and an error when a payload is of a
\* type encoding/json does not support
JSONMarshal(a) ==
    IF Marshalable(a.Questions) /\ Marshalable(a.CodeSubmissionConfig)
    THEN [data |-> <<JSONObject(a)>>, err |-> NilError]
    ELSE [data |-> <<>>, err |-> Errorf("json: unsupported type: ", <<>>)]

\* sha256.Sum256 and the %x formatting: a digest that is the same exactly
\* for the same bytes (collisions are not modelled)
Sum256Hex(data) == <<"sha256", data>>

\* calculateHash over the whole package instead of the assignment body
calculateHashWholePackage(pkg) ==
    Sum256Hex(<<pkg.Metadata>> \o JSONMarshal(pkg.Assignment).data)

\* data, _ := json.Marshal(pkg.Assignment); the error is dropped
calculateHash(pkg) ==
    Sum256Hex(JSONMarshal(pkg.Assignment).data)

-----------------------------------------------------------------------------
(* Inputs *)

\* all sequences over S of length 0..n
SeqsUpTo(S, n) == UNION {[1..k -> S] : k \in 0..n}

\* words that are no key of the registry
s_bogus == <<"b", "o", "g", "u", "s">>
s_multiplechoice ==
    <<"m", "u", "l", "t", "i", "p", "l", "e", "c", "h", "o", "i", "c", "e">>
s_multiple_choice_spaced ==
    <<"m", "u", "l", "t", "i", "p", "l", "e", " ", "c", "h", "o", "i", "c", "e">>

PadChars == {" ", "\t"}
Pads == SeqsUpTo(PadChars, MaxPad)

ShortAlphabet == {"m", "c", "q", " "}
ShortWords == SeqsUpTo(ShortAlphabet, MaxLen)

Casings == {"asis", "upper", "title"}

ApplyCase(c, s) ==
    IF c = "upper" THEN ToUpper(s)
    ELSE IF c = "title" /\ s # <<>> THEN <<ToUpperChar(Head(s))>> \o Tail(s)
    ELSE s

CanonicalKeys == {directMappings[i].PortableType : i \in 1..Len(directMappings)}
AliasKeys == {aliasTable[i][1] : i \in 1..Len(aliasTable)}
LMSTypeNames == {directMappings[i].LMSType : i \in 1..Len(directMappings)}

Words ==
    CanonicalKeys \cup AliasKeys \cup LMSTypeNames \cup ShortWords
        \cup {s_bogus, s_multiplechoice, s_multiple_choice_spaced}

\* the strings handed to the registry
TypeInputs ==
    {l \o ApplyCase(c, w) \o r : l \in Pads, r \in Pads, c \in Casings, w \in Words}

Titles == {<<>>, <<"T">>}
Descriptions == {<<>>, <<"d">>}
PackageTypes ==
    {<<>>, s_multiple_choice, s_matching, s_essay, s_mcq,
     ToUpper(s_multiple_choice), s_bogus}

\* nil, or a list or map with 0..MaxQuestions entries
QuestionPayloads ==
    {NilPayload} \cup
    {[kind |-> k, size |-> n] : k \in {"list", "map"}, n \in 0..MaxQuestions}

Packages ==
    {[Assignment |->
        [Title |-> t, Description |-> d, Type |-> ty, Questions |-> q,
         Points |-> p]] :
        t \in Titles, d \in Descriptions, ty \in PackageTypes,
        q \in QuestionPayloads, p \in (-MaxPoints)..MaxPoints}

\* the metadata the create command gives a package, before the hash is set
DefaultMetadata ==
    [ID |-> "uuid-1", Version |-> "1.0.0", Created |-> 1, Modified |-> 1,
     Author |-> "Unknown Author", License |-> "CC-BY-SA-4.0",
     Language |-> "en", SourceHash |-> "h"]

\* the assignment createAssignmentWizard starts from, all prompts left empty
DefaultAssignment ==
    [Title |-> <<"T">>, Description |-> <<>>, Type |-> s_multiple_choice,
     Subtype |-> <<>>, Category |-> <<>>, Difficulty |-> "beginner",
     Questions |-> NilPayload, Instructions |-> <<>>, Criteria |-> <<>>,
     CodeSubmissionConfig |-> NilPayload,
     Points |-> 1, TimeLimit |-> <<>>, MaxAttempts |-> <<>>,
     AutoGrade |-> TRUE, ShowFeedback |-> TRUE, ShuffleQuestions |-> FALSE,
     AllowReview |-> TRUE,
     DueDate |-> <<>>, AvailableFrom |-> <<>>, AvailableTo |-> <<>>,
     Quarter |-> "Q1",
     TrackAttempts |-> TRUE, TrackConfidence |-> TRUE, TrackTimeSpent |-> TRUE,
     LearningObjectives |-> <<>>, Prerequisites |-> <<>>,
     RecommendedCourses |-> <<>>, Tags |-> <<>>,
     Published |-> TRUE]

\* a nil pointer, or a pointer to a value of S
Optional(S) == {<<>>} \cup {<<v>> : v \in S}

s_custom == <<"c", "u", "s", "t", "o", "m">>

\* type strings of the packages handed to the converter
WireTypes ==
    {<<>>, s_essay, s_mcq, s_drag_drop_labeling, s_bogus,
     <<" ">> \o ToUpper(s_mcq) \o <<" ">>,
     <<" ">> \o ApplyCase("title", s_bogus) \o <<" ">>,
     s_writing}

WireSubtypes == {<<>>, s_ordering, s_custom}

\* the packages handed to convertToLMSFormat
WirePackages ==
    {[Metadata |-> DefaultMetadata,
      Assignment |->
        [DefaultAssignment EXCEPT !.Type = ty, !.Subtype = st,
            !.DueDate = due, !.AvailableFrom = from, !.AvailableTo = to,
            !.TimeLimit = tl, !.MaxAttempts = ma]] :
        ty \in WireTypes, st \in WireSubtypes,
        due \in Optional(1..MaxTime), from \in Optional(1..MaxTime),
        to \in Optional(1..MaxTime),
        tl \in Optional(0..MaxCount), ma \in Optional(0..MaxCount)}

\* a mapping as yaml.v2 loads it into an interface{} field
YamlMapPayload == [kind |-> "yamlmap", size |-> 1]

\* a mapping as the create wizard builds it (map[string]interface{})
WizardPayload == [kind |-> "map", size |-> 1]

\* resources with and without a local file
ResourceLists ==
    SeqsUpTo({[Title |-> "r", LocalPath |-> p] : p \in {"", "f"}}, MaxResources)

Exchange(kind, status, parseable, id) ==
    [kind |-> kind, status |-> status, parseable |-> parseable, id |-> id,
     message |-> "created"]

\* what the LMS can answer the create request with
CreateExchanges ==
    {Exchange("transportError", 0, FALSE, ""),
     Exchange("response", 200, TRUE, "A1"),
     Exchange("response", 201, TRUE, "A2"),
     Exchange("response", 500, TRUE, ""),
     Exchange("response", 200, FALSE, "")}

\* what can happen to the upload of one resource
UploadExchanges ==
    {Exchange("openError", 0, FALSE, ""),
     Exchange("response", 200, TRUE, "R1"),
     Exchange("response", 500, TRUE, "")}

SyncPackages ==
    {[Metadata |-> DefaultMetadata,
      Assignment |-> [DefaultAssignment EXCEPT !.Questions = q],
      Resources |-> rs] :
        q \in {WizardPayload, YamlMapPayload}, rs \in ResourceLists}

\* a package together with the answers of the environment to its requests
SyncCases ==
    UNION {{[pkg |-> p, net |-> [create |-> c, uploads |-> u]] :
                c \in CreateExchanges,
                u \in [1..Len(p.Resources) -> UploadExchanges]} :
           p \in SyncPackages}

\* the cases a batch is made of: at most one resource, which has a file
BatchItems ==
    {c \in SyncCases :
        /\ c.pkg.Assignment.Questions = WizardPayload
        /\ Len(c.pkg.Resources) <= 1
        /\ \A i \in DOMAIN c.pkg.Resources : c.pkg.Resources[i].LocalPath # ""
        /\ c.net.create.kind = "transportError" \/ c.net.create.parseable
        /\ c.net.create.status # 500
        /\ \A i \in DOMAIN c.net.uploads : c.net.uploads[i].status # 500}

Batches == SeqsUpTo(BatchItems, MaxBatch)

\* package metadata: the default and one that differs in every field
HashMetadata ==
    {DefaultMetadata,
     [DefaultMetadata EXCEPT !.ID = "uuid-2"],
     [DefaultMetadata EXCEPT !.SourceHash = "stale"],
     [ID |-> "uuid-3", Version |-> "1.0.1", Created |-> 2, Modified |-> 3,
      Author |-> "A", License |-> "MIT", Language |-> "fr",
      SourceHash |-> ""]}

\* assignment bodies: title, type, subtype, payload and points vary together,
\* the other fields one at a time
HashBodies ==
    {[DefaultAssignment EXCEPT !.Title = t, !.Type = ty, !.Subtype = st,
                               !.Questions = q, !.Points = p] :
        t \in {<<"T">>, <<"U">>}, ty \in {s_multiple_choice, s_essay},
        st \in {<<>>, s_ordering},
        q \in {NilPayload, WizardPayload, YamlMapPayload,
               [kind |-> "list", size |-> 0]},
        p \in {1, MaxPoints}}
    \cup {[DefaultAssignment EXCEPT !.Description = <<"d">>],
          [DefaultAssignment EXCEPT !.AutoGrade = FALSE],
          [DefaultAssignment EXCEPT !.DueDate = <<MaxTime>>],
          [DefaultAssignment EXCEPT !.MaxAttempts = <<0>>],
          [DefaultAssignment EXCEPT !.Tags = <<"tag">>],
          [DefaultAssignment EXCEPT !.LearningObjectives = <<"lo">>]}

HashPackages ==
    {[Metadata |-> m, Assignment |-> a] : m \in HashMetadata, a \in HashBodies}

s_drag == <<"d", "r", "a", "g">>
s_writ == <<"w", "r", "i", "t">>

\* the inputs suggestions are asked for
SuggestInputs ==
    {s_drag, ToUpper(s_drag), s_multiplechoice, s_bogus, s_writ, s_mc,
     s_essay, s_drag_and_drop}

-----------------------------------------------------------------------------
(* The create and package commands and the package files (commands.go) *)

\* map[string]interface{} with question, options, correctAnswer, explanation
MultipleChoiceQuestions == [kind |-> "map", size |-> 4]

\* map[string]interface{} with leftItems and rightItems
MatchingQuestions == [kind |-> "map", size |-> 2]

\* map[string]interface{} with the five settings of a code submission
CodeSubmissionConfig == [kind |-> "map", size |-> 5]

\* createAssignmentWizard; answers are what the user types at the prompts.
\* The switch compares the type string as it was given on the command line.
createAssignmentWizard(assignmentType, answers) ==
    LET basic == [DefaultAssignment EXCEPT
                     !.Type = assignmentType,
                     !.Title = answers.title,
                     !.Description = answers.description,
                     !.Points = answers.points]
    IN  IF assignmentType = s_multiple_choice
        THEN [basic EXCEPT !.Questions = MultipleChoiceQuestions]
        ELSE IF assignmentType = s_matching
        THEN [basic EXCEPT !.Questions = MatchingQuestions]
        ELSE IF assignmentType \in {s_writing, s_writing_long}
        THEN [basic EXCEPT !.AutoGrade = FALSE]
        ELSE IF assignmentType = s_code_submission
        THEN [basic EXCEPT !.Questions = CodeSubmissionConfig,
                           !.AutoGrade = FALSE]
        ELSE basic

\* createMultipleChoiceQuestions calls promptSelect with the options entered;
\* promptSelect returns options[0] by default, which panics without options
WizardPanics(assignmentType, answers) ==
    assignmentType = s_multiple_choice /\ answers.options = 0

\* a value of an interface{} field as the YAML text holds it: a mapping is
\* written the same whatever Go map type it came from
YAMLValue(value) ==
    IF value.kind \in {"map", "yamlmap"}
    THEN [kind |-> "mapping", size |-> value.size] ELSE value

\* yaml.v2 decodes a mapping into map[interface{}]interface{}
GoValue(value) ==
    IF value.kind = "mapping"
    THEN [kind |-> "yamlmap", size |-> value.size] ELSE value

\* yaml.Marshal(pkg): the document written to the file
YAMLMarshal(pkg) ==
    [Metadata |-> pkg.Metadata,
     Assignment |-> [pkg.Assignment EXCEPT
                        !.Questions = YAMLValue(@),
                        !.CodeSubmissionConfig = YAMLValue(@)]]

\* yaml.Unmarshal(data, &pkg)
YAMLUnmarshal(doc) ==
    [Metadata |-> doc.Metadata,
     Assignment |-> [doc.Assignment EXCEPT
                        !.Questions = GoValue(@),
                        !.CodeSubmissionConfig = GoValue(@)]]

s_yaml == <<".", "y", "a", "m", "l">>
s_package_assignment_yaml ==
    <<"-", "p", "a", "c", "k", "a", "g", "e", "/",
      "a", "s", "s", "i", "g", "n", "m", "e", "n", "t", ".", "y", "a", "m", "l">>

\* strings.ReplaceAll(strings.ToLower(title), " ", "-") + ".yaml"
CreatedFileName(title) ==
    [i \in 1..Len(title) |->
        IF ToLowerChar(title[i]) = " " THEN "-" ELSE ToLowerChar(title[i])]
    \o s_yaml

\* filepath.Join(strings.TrimSuffix(filename, filepath.Ext(filename)) + "-package",
\*               "assignment.yaml"), for a file name ending in .yaml
PackageFileName(filename) ==
    SubSeq(filename, 1, Len(filename) - Len(s_yaml)) \o s_package_assignment_yaml

\* saveAssignmentPackage: the file holds the document, written by the tool
saveAssignmentPackage(fs, pkg, filename) ==
    (filename :> [doc |-> YAMLMarshal(pkg), writer |-> "tool", nesting |-> 0])
    @@ fs


\* the type argument of create; <<>> as argument list stands for no argument
CreateTypes == {s_multiple_choice, s_mcq, s_code, s_multiplechoice}

\* what the user answers at the prompts of the wizard
WizardAnswers ==
    {[title |-> <<"T">>, description |-> <<>>, points |-> p, options |-> n] :
        p \in {1, MaxPoints}, n \in 0..MaxQuestions}

\* the names of the files the commands can be pointed at
FileNames ==
    {CreatedFileName(a.title) : a \in WizardAnswers}
    \cup {PackageFileName(CreatedFileName(a.title)) : a \in WizardAnswers}

\* config.LMSEndpoint: not configured, or the URL of the LMS
Endpoints == {"", "https://lms"}

\* how the LMS would answer the create request of a sync: not at all, or by
\* accepting the assignment
SyncAnswers ==
    {Exchange("transportError", 0, FALSE, ""),
     Exchange("response", 201, TRUE, "A2")}

\* the goroutines that call GetTypeManager
Callers == 1..MaxCallers

\* the elements of a set one after another
RECURSIVE Enumerate(_)
Enumerate(S) ==
    IF S = {} THEN <<>>
    ELSE LET x == CHOOSE x \in S : TRUE IN <<x>> \o Enumerate(S \ {x})

\* orders in which a range loop visits the keys S of a map: the runtime
\* starts at a random position, so the rotations of an enumeration and of its
\* reverse are taken
Traversals(S) ==
    LET forward == Enumerate(S)
        backward == [i \in DOMAIN forward |-> forward[Len(forward) + 1 - i]]
        Rotate(seq, k) == SubSeq(seq, k + 1, Len(seq)) \o SubSeq(seq, 1, k)
    IN  {Rotate(forward, k) : k \in 0..(Cardinality(S) - 1)}
        \cup {Rotate(backward, k) : k \in 0..(Cardinality(S) - 1)}

-----------------------------------------------------------------------------
(* The state machine *)

Init ==
    /\ globalTypeManager = <<>>
    /\ op = "init"
    /\ arg = <<>>
    /\ ret = <<>>
    /\ files = <<>>
    /\ callers = [pc |-> [c \in Callers |-> "idle"],
                  tmp |-> [c \in Callers |-> 0],
                  returned |-> [c \in Callers |-> 0],
                  allocated |-> 0,
                  global |-> 0]

\* one command of the tool runs per process: a core operation is called once,
\* possibly after the registry was fetched
Idle == op \in {"init", "GetTypeManager"}

\* if globalTypeManager == nil { globalTypeManager = NewAssignmentTypeManager() }
GetTypeManager ==
    /\ Idle
    /\ globalTypeManager' =
          IF globalTypeManager = <<>> THEN <<NewAssignmentTypeManager>>
          ELSE globalTypeManager
    /\ op' = "GetTypeManager"
    /\ arg' = <<>>
    /\ ret' = globalTypeManager'
    /\ UNCHANGED <<files, callers>>

CallResolveType(portableType) ==
    /\ Idle
    /\ globalTypeManager # <<>>
    /\ op' = "ResolveType"
    /\ arg' = portableType
    /\ ret' = ResolveType(globalTypeManager[1], portableType)
    /\ UNCHANGED <<globalTypeManager, files, callers>>

CallValidatePortableType(portableType) ==
    /\ Idle
    /\ globalTypeManager # <<>>
    /\ op' = "ValidatePortableType"
    /\ arg' = portableType
    /\ ret' = ValidatePortableType(globalTypeManager[1], portableType)
    /\ UNCHANGED <<globalTypeManager, files, callers>>

CallConvertToLMSFormat(portableType) ==
    /\ Idle
    /\ globalTypeManager # <<>>
    /\ op' = "ConvertToLMSFormat"
    /\ arg' = portableType
    /\ ret' = ConvertToLMSFormat(globalTypeManager[1], portableType)
    /\ UNCHANGED <<globalTypeManager, files, callers>>

\* runValidate, after the package was loaded
RunValidate(pkg) ==
    /\ Idle
    /\ op' = "validateAssignmentPackage"
    /\ arg' = pkg
    /\ ret' = validateAssignmentPackage(pkg)
    /\ UNCHANGED <<globalTypeManager, files, callers>>

\* convertToLMSFormat, which fetches the registry itself
RunConvertToLMSFormat(pkg) ==
    /\ Idle
    /\ globalTypeManager' =
          IF globalTypeManager = <<>> THEN <<NewAssignmentTypeManager>>
          ELSE globalTypeManager
    /\ op' = "convertToLMSFormat"
    /\ arg' = pkg
    /\ ret' = convertToLMSFormat(globalTypeManager'[1], pkg)
    /\ UNCHANGED <<files, callers>>

\* SyncAssignment; convertToLMSFormat fetches the registry
RunSyncAssignment(c) ==
    /\ Idle
    /\ globalTypeManager' =
          IF globalTypeManager = <<>> THEN <<NewAssignmentTypeManager>>
          ELSE globalTypeManager
    /\ op' = "SyncAssignment"
    /\ arg' = c
    /\ ret' = SyncAssignment(globalTypeManager'[1], c.pkg, c.net)
    /\ UNCHANGED <<files, callers>>

\* BatchSyncAssignments; the registry is fetched when the first item is converted
RunBatchSyncAssignments(batch) ==
    /\ Idle
    /\ globalTypeManager' =
          IF globalTypeManager = <<>> /\ batch # <<>>
          THEN <<NewAssignmentTypeManager>>
          ELSE globalTypeManager
    /\ op' = "BatchSyncAssignments"
    /\ arg' = [packages |-> [i \in DOMAIN batch |-> batch[i].pkg],
               nets |-> [i \in DOMAIN batch |-> batch[i].net]]
    /\ ret' = BatchSyncAssignments(
                 IF batch = <<>> THEN NewAssignmentTypeManager
                 ELSE globalTypeManager'[1],
                 arg'.packages, arg'.nets)
    /\ UNCHANGED <<files, callers>>

\* GetLMSTypes, with the orders of its two range loops
CallGetLMSTypes(mappingOrder, typeOrder) ==
    /\ Idle
    /\ globalTypeManager # <<>>
    /\ op' = "GetLMSTypes"
    /\ arg' = <<>>
    /\ ret' = GetLMSTypes(globalTypeManager[1], mappingOrder, typeOrder)
    /\ UNCHANGED <<globalTypeManager, files, callers>>

\* GetSuggestedTypes, the two maps being traversed in any order
CallGetSuggestedTypes(input) ==
    /\ Idle
    /\ globalTypeManager # <<>>
    /\ op' = "GetSuggestedTypes"
    /\ arg' = input
    /\ ret' \in SuggestionResults(globalTypeManager[1], input)
    /\ UNCHANGED <<globalTypeManager, files, callers>>

\* a second call of GetSuggestedTypes with the input of the first; ret keeps
\* what both calls returned
CallGetSuggestedTypesAgain ==
    /\ op = "GetSuggestedTypes"
    /\ op' = "GetSuggestedTypesAgain"
    /\ arg' = arg
    /\ \E second \in SuggestionResults(globalTypeManager[1], arg) :
          ret' = [first |-> ret, second |-> second]
    /\ UNCHANGED <<globalTypeManager, files, callers>>

RunCalculateHash(pkg) ==
    /\ Idle
    /\ op' = "calculateHash"
    /\ arg' = pkg
    /\ ret' = calculateHash(pkg)
    /\ UNCHANGED <<globalTypeManager, files, callers>>

\* runCreate.  args is <<>> or <<type>>; selected is the type picked from the
\* menu that is shown without an argument.
RunCreate(args, selected, answers) ==
    LET manager == IF globalTypeManager = <<>> THEN NewAssignmentTypeManager
                   ELSE globalTypeManager[1]
        assignmentType == IF Len(args) > 0 THEN args[1] ELSE selected
        assignment == createAssignmentWizard(assignmentType, answers)
        pkg0 == [Metadata |-> [DefaultMetadata EXCEPT !.SourceHash = <<>>],
                 Assignment |-> assignment]
        pkg == [pkg0 EXCEPT !.Metadata.SourceHash = calculateHash(pkg0)]
        filename == CreatedFileName(assignment.Title)
    IN  /\ globalTypeManager' = <<manager>>
        /\ op' = "runCreate"
        /\ UNCHANGED callers
        /\ arg' = [args |-> args, answers |-> answers]
        /\ IF Len(args) > 0 /\ ~ValidatePortableType(manager, args[1])
           THEN /\ \E suggestions \in SuggestionResults(manager, args[1]) :
                      ret' = [status |-> "unknown type",
                              suggestions |-> suggestions]
                /\ UNCHANGED files
           ELSE IF ~ConvertToLMSFormat(manager, assignmentType).err.isNil
           THEN /\ ret' = [status |-> "error resolving type",
                           suggestions |-> <<>>]
                /\ UNCHANGED files
           ELSE IF WizardPanics(assignmentType, answers)
           THEN /\ ret' = [status |-> "panic", suggestions |-> <<>>]
                /\ UNCHANGED files
           ELSE /\ ret' = [status |-> "created", suggestions |-> <<>>]
                /\ files' = saveAssignmentPackage(files, pkg, filename)

\* the user changes the points of the assignment body of a file in an editor
ManualEdit(filename, points) ==
    /\ filename \in DOMAIN files
    /\ files[filename].doc.Assignment.Points # points
    /\ op' = "manual edit"
    /\ arg' = filename
    /\ ret' = <<>>
    /\ files' = [files EXCEPT ![filename].doc.Assignment.Points = points,
                              ![filename].writer = "user"]
    /\ UNCHANGED <<globalTypeManager, callers>>

\* runPackage: load the file, save it as assignment.yaml of the package
\* directory (the copied resources and the README are not modelled)
RunPackage(filename) ==
    /\ op' = "runPackage"
    /\ arg' = filename
    /\ IF filename \notin DOMAIN files
       THEN /\ ret' = "Failed to load assignment"
            /\ UNCHANGED files
       ELSE /\ files[filename].nesting < MaxNesting
            /\ ret' = "Package created"
            /\ files' =
                 [saveAssignmentPackage(files,
                      YAMLUnmarshal(files[filename].doc),
                      PackageFileName(filename))
                  EXCEPT ![PackageFileName(filename)].nesting =
                              files[filename].nesting + 1]
    /\ UNCHANGED <<globalTypeManager, callers>>

\* filepath.Glob("*.yaml"): the package files of the working directory itself
GlobYaml(fs) == {f \in DOMAIN fs : \A i \in DOMAIN f : f[i] # "/"}

\* runSync.  endpoint is config.LMSEndpoint, args is <<>> or <<filename>>,
\* selected the file picked from the list shown without an argument, create
\* the way the LMS would answer a create request, id the value of uuid.New()
\* (one that no other id equals).
\* The function loads the file, waits and prints; it calls neither
\* convertToLMSFormat nor SyncAssignment and sends no request.
RunSync(endpoint, args, selected, create, id) ==
    LET filename == IF Len(args) > 0 THEN args[1] ELSE selected IN
    /\ op' = "runSync"
    /\ arg' = [endpoint |-> endpoint, args |-> args, create |-> create]
    /\ IF endpoint = ""
       THEN ret' = [status |-> "LMS endpoint not configured", id |-> "",
                    requests |-> 0]
       ELSE IF Len(args) = 0 /\ GlobYaml(files) = {}
       THEN ret' = [status |-> "No assignment files found", id |-> "",
                    requests |-> 0]
       ELSE /\ Len(args) = 0 => selected \in GlobYaml(files)
            /\ IF filename \notin DOMAIN files
               THEN ret' = [status |-> "Failed to load assignment", id |-> "",
                            requests |-> 0]
               ELSE ret' = [status |-> "Assignment synced successfully!",
                            id |-> id, requests |-> 0]
    /\ UNCHANGED <<globalTypeManager, files, callers>>

NextFiles ==
    \/ \E t \in CreateTypes, a \in WizardAnswers : RunCreate(<<t>>, t, a)
    \/ \E t \in CreateTypes \cap CanonicalKeys, a \in WizardAnswers :
          RunCreate(<<>>, t, a)
    \/ \E f \in FileNames, p \in {1, MaxPoints} : ManualEdit(f, p)
    \/ \E f \in FileNames : RunPackage(f)
    \/ \E e \in Endpoints, f \in FileNames, c \in SyncAnswers, id \in {"uuid-2"} :
          RunSync(e, <<f>>, f, c, id)
    \/ \E e \in Endpoints, f \in FileNames, c \in SyncAnswers, id \in {"uuid-2"} :
          RunSync(e, <<>>, f, c, id)

\* the commands that read and write package files, run one after another
SpecFiles == Init /\ [][NextFiles]_vars

\* GetTypeManager called from several goroutines.  The function takes no lock
\* and uses no sync.Once, so its reads and writes of globalTypeManager are
\* steps of their own.  Registries are told apart by the number of the
\* allocation that made them (0 is nil); callers.global is the one
\* globalTypeManager points to.

\* the call
Enter(c) ==
    /\ callers.pc[c] = "idle"
    /\ callers' = [callers EXCEPT !.pc[c] = "check"]
    /\ UNCHANGED <<globalTypeManager, op, arg, ret, files>>

\* if globalTypeManager == nil
CheckNil(c) ==
    /\ callers.pc[c] = "check"
    /\ callers' = [callers EXCEPT
                      !.pc[c] = IF callers.global = 0 THEN "construct"
                                ELSE "return"]
    /\ UNCHANGED <<globalTypeManager, op, arg, ret, files>>

\* NewAssignmentTypeManager()
Construct(c) ==
    /\ callers.pc[c] = "construct"
    /\ callers' = [callers EXCEPT !.pc[c] = "store",
                                  !.allocated = @ + 1,
                                  !.tmp[c] = callers.allocated + 1]
    /\ UNCHANGED <<globalTypeManager, op, arg, ret, files>>

\* globalTypeManager = ...
Store(c) ==
    /\ callers.pc[c] = "store"
    /\ globalTypeManager' = <<NewAssignmentTypeManager>>
    /\ callers' = [callers EXCEPT !.pc[c] = "return",
                                  !.global = callers.tmp[c]]
    /\ UNCHANGED <<op, arg, ret, files>>

\* return globalTypeManager: the value read from the variable, or for the
\* caller that has just stored it the value it stored, which the compiled code
\* may still hold in a register
Return(c) ==
    /\ callers.pc[c] = "return"
    /\ \E p \in {callers.global} \cup ({callers.tmp[c]} \ {0}) :
          callers' = [callers EXCEPT !.pc[c] = "done", !.returned[c] = p]
    /\ UNCHANGED <<globalTypeManager, op, arg, ret, files>>

NextConcurrent ==
    \/ \E c \in Callers : Enter(c)
    \/ \E c \in Callers : CheckNil(c)
    \/ \E c \in Callers : Construct(c)
    \/ \E c \in Callers : Store(c)
    \/ \E c \in Callers : Return(c)

\* several goroutines calling GetTypeManager, as the converters of a parallel
\* batch do
SpecConcurrent == Init /\ [][NextConcurrent]_vars

Next ==
    \/ GetTypeManager
    \/ \E s \in TypeInputs : CallResolveType(s)
    \/ \E s \in TypeInputs : CallValidatePortableType(s)
    \/ \E s \in TypeInputs : CallConvertToLMSFormat(s)
    \/ \E pkg \in Packages : RunValidate(pkg)
    \/ \E pkg \in WirePackages : RunConvertToLMSFormat(pkg)
    \/ \E c \in SyncCases : RunSyncAssignment(c)
    \/ \E pkg \in HashPackages : RunCalculateHash(pkg)
    \/ \E mo \in Traversals(CanonicalKeys), to \in Traversals(LMSTypeNames) :
          CallGetLMSTypes(mo, to)
    \/ \E s \in SuggestInputs : CallGetSuggestedTypes(s)
    \/ CallGetSuggestedTypesAgain
    \/ \E batch \in Batches : RunBatchSyncAssignments(batch)

Spec == Init /\ [][Next]_vars

-----------------------------------------------------------------------------
(* Properties of the type registry *)

\* the registry the callers hold
atm == globalTypeManager[1]

Normalized(s) == ToLower(TrimSpace(s))

\* C1: for every alias a with target t in the alias table, ResolveType(a)
\* returns exactly the TypeMapping that ResolveType(t) returns.
C1_AliasResolvesAsTarget ==
    (op = "ResolveType" /\ arg \in DOMAIN atm.aliases) =>
        /\ ret.err.isNil
        /\ ret = ResolveType(atm, atm.aliases[arg])

\* C2: in the registry built by NewAssignmentTypeManager no alias key is
\* also a canonical portable-type key.
C2_AliasKeysDisjointFromCanonical ==
    globalTypeManager # <<>> =>
        (DOMAIN atm.aliases) \cap (DOMAIN atm.mappings) = {}

\* C3: whenever the normalized input is a canonical key, ResolveType returns
\* the mapping stored under that key, also when the same string is an alias
\* key that points to another portable type.
C3_CanonicalBeforeAlias ==
    (op = "ResolveType" /\ Normalized(arg) \in DOMAIN atm.mappings) =>
        /\ ret.err.isNil
        /\ ret.mapping = atm.mappings[Normalized(arg)]

\* an input that is a canonical key and an alias of another type was resolved
C3_Witness ==
    /\ op = "ResolveType"
    /\ Normalized(arg) \in (DOMAIN atm.mappings) \cap (DOMAIN atm.aliases)
    /\ atm.aliases[Normalized(arg)] # Normalized(arg)
    /\ ret.mapping.PortableType = Normalized(arg)

\* C4: every canonical portable type t resolves to the mapping whose
\* PortableType is t, ConvertToLMSFormat(t) gives a non-empty LMS type and no
\* error, and ResolveType fails only for inputs whose normalized form is
\* neither a canonical key nor an alias key.
C4_ResolutionTotal ==
    /\ (op = "ResolveType" /\ arg \in DOMAIN atm.mappings) =>
          ret.err.isNil /\ ret.mapping.PortableType = arg
    /\ (op = "ConvertToLMSFormat" /\ arg \in DOMAIN atm.mappings) =>
          ret.err.isNil /\ ret.lmsType # <<>>
    /\ (op = "ResolveType" /\ ~ret.err.isNil) =>
          Normalized(arg) \notin (DOMAIN atm.mappings) \cup (DOMAIN atm.aliases)

\* the canonical type quiz was converted to the LMS type multiple-choice
C4_Witness ==
    /\ op = "ConvertToLMSFormat"
    /\ arg = s_quiz
    /\ ret.err.isNil
    /\ ret.lmsType = s_multiple_choice

\* C5: ResolveType(s) has the same outcome (the same mapping, or failure) as
\* ResolveType of s trimmed and lowercased; " MCQ " resolves as "mcq" does.
C5_CaseAndWhitespaceInsensitive ==
    op = "ResolveType" =>
        LET r == ResolveType(atm, ToLower(TrimSpace(arg))) IN
        /\ ret.mapping = r.mapping
        /\ ret.err.isNil = r.err.isNil
        /\ arg = <<" ", "M", "C", "Q", " ">> =>
              ret.err.isNil /\ ret.mapping = ResolveType(atm, s_mcq).mapping

\* " MCQ " was resolved, to multiple-choice
C5_Witness ==
    /\ op = "ResolveType"
    /\ arg = <<" ", "M", "C", "Q", " ">>
    /\ ret.err.isNil
    /\ ret.mapping.PortableType = s_multiple_choice

-----------------------------------------------------------------------------
(* Properties of the package validator *)

\* the payload is nil, or present with nothing in it
EmptyOrAbsent(q) == q = NilPayload \/ q.size = 0

\* how often msg occurs in seq
Occurrences(seq, msg) == Cardinality({i \in DOMAIN seq : seq[i] = msg})

\* C6: a multiple-choice or matching package whose question payload is empty
\* or absent gets a blocking error, isValid = false and 30 points deducted.
C6_EmptyPayloadIsBlocking ==
    (/\ op = "validateAssignmentPackage"
     /\ arg.Assignment.Type \in {s_multiple_choice, s_matching}
     /\ EmptyOrAbsent(arg.Assignment.Questions)) =>
        /\ ~ret.IsValid
        /\ \E i \in DOMAIN ret.Errors :
              ret.Errors[i] \in {"Multiple choice questions are required",
                                 "Matching items are required"}
        /\ ret.Score =
              100 - 30
                  - (IF arg.Assignment.Title = <<>> THEN 20 ELSE 0)
                  - (IF arg.Assignment.Description = <<>> THEN 5 ELSE 0)
                  - (IF arg.Assignment.Points <= 0 THEN 10 ELSE 0)

\* C7: the score returned by validateAssignmentPackage lies in 0..100.
C7_ScoreInRange ==
    op = "validateAssignmentPackage" => ret.Score \in 0..100

\* a package without any deduction was validated: the upper end of the range
C7_Witness ==
    /\ op = "validateAssignmentPackage"
    /\ ret.Score = 100
    /\ ret.Errors = <<>>
    /\ ret.Warnings = <<>>

\* C8, as claimed: there is a package for which validateAssignmentPackage
\* returns a negative score (stated of the validator's inputs, once it ran).
C8_SomeScoreNegative ==
    op = "validateAssignmentPackage" =>
        \E pkg \in Packages : validateAssignmentPackage(pkg).Score < 0

\* C8, amended: the score is 100 minus the deductions of the recorded errors
\* and warnings, unclamped, and these deductions total at most 65, so that no
\* score is below 35.
C8_ScoreAtLeast35 ==
    op = "validateAssignmentPackage" =>
        /\ ret.Score >= 35
        /\ ret.Score =
              100 - 20 * Occurrences(ret.Errors, "Assignment title is required")
                  - 20 * Occurrences(ret.Errors, "Assignment type is required")
                  - 30 * Occurrences(ret.Errors, "Multiple choice questions are required")
                  - 30 * Occurrences(ret.Errors, "Matching items are required")
                  - 5 * Occurrences(ret.Warnings, "Assignment description is recommended")
                  - 10 * Occurrences(ret.Warnings, "Assignment should have positive points")

\* the package with the largest total deduction was validated
C8_Witness ==
    /\ op = "validateAssignmentPackage"
    /\ ret.Score = 35
    /\ Len(ret.Errors) = 2
    /\ Len(ret.Warnings) = 2

\* C9: isValid is false iff the errors list is non-empty; warnings (missing
\* description, non-positive points) never make isValid false.
C9_InvalidIffErrors ==
    op = "validateAssignmentPackage" =>
        /\ ~ret.IsValid <=> ret.Errors # <<>>
        /\ (arg.Assignment.Title # <<>> /\ arg.Assignment.Type # <<>>
            /\ arg.Assignment.Questions # NilPayload) => ret.IsValid

\* a package with both warnings and no error was validated, and is valid
C9_Witness ==
    /\ op = "validateAssignmentPackage"
    /\ Len(ret.Warnings) = 2
    /\ ret.Errors = <<>>
    /\ ret.IsValid

\* C10: a package with empty title and empty type, whatever its other fields,
\* gets isValid = false, a score of at most 60 and exactly two errors.
C10_EmptyTitleAndType ==
    (/\ op = "validateAssignmentPackage"
     /\ arg.Assignment.Title = <<>>
     /\ arg.Assignment.Type = <<>>) =>
        /\ ~ret.IsValid
        /\ ret.Score <= 60
        /\ Len(ret.Errors) = 2

\* a package with empty title and type and no question payload was validated
C10_Witness ==
    /\ op = "validateAssignmentPackage"
    /\ arg.Assignment.Title = <<>>
    /\ arg.Assignment.Type = <<>>
    /\ arg.Assignment.Questions = NilPayload
    /\ Len(ret.Errors) = 2

\* C11: a package with non-empty title, type multiple-choice, non-empty
\* question payload, non-empty description and positive points is valid,
\* with no errors, no warnings and score 100.
C11_FullMultipleChoiceIsValid ==
    (/\ op = "validateAssignmentPackage"
     /\ arg.Assignment.Title # <<>>
     /\ arg.Assignment.Type = s_multiple_choice
     /\ ~EmptyOrAbsent(arg.Assignment.Questions)
     /\ arg.Assignment.Description # <<>>
     /\ arg.Assignment.Points > 0) =>
        /\ ret.IsValid
        /\ ret.Errors = <<>>
        /\ ret.Warnings = <<>>
        /\ ret.Score = 100

\* a fully populated multiple-choice package with 1 point was validated
C11_Witness ==
    /\ op = "validateAssignmentPackage"
    /\ arg.Assignment.Title # <<>>
    /\ arg.Assignment.Type = s_multiple_choice
    /\ arg.Assignment.Questions.kind = "map"
    /\ arg.Assignment.Questions.size > 0
    /\ arg.Assignment.Description # <<>>
    /\ arg.Assignment.Points = 1
    /\ ret.IsValid

-----------------------------------------------------------------------------
(* Properties of the format converter *)

\* C12: convertToLMSFormat never fails; for a package whose type does not
\* resolve in the registry the wire record's "type" is the package's type
\* string unchanged (not normalized) and its "subtype" the package's subtype.
C12_UnresolvedTypePassesThrough ==
    op = "convertToLMSFormat" =>
        /\ {"type", "subtype", "title", "importedFrom"} \subseteq DOMAIN ret
        /\ Normalized(arg.Assignment.Type)
              \notin (DOMAIN atm.mappings) \cup (DOMAIN atm.aliases) =>
                 /\ ret["type"] = arg.Assignment.Type
                 /\ ret["subtype"] = arg.Assignment.Subtype

\* a package of the unknown type " Bogus " with a subtype was converted
C12_Witness ==
    /\ op = "convertToLMSFormat"
    /\ arg.Assignment.Type = <<" ", "B", "o", "g", "u", "s", " ">>
    /\ arg.Assignment.Subtype = s_custom
    /\ ret["type"] = <<" ", "B", "o", "g", "u", "s", " ">>
    /\ ret["subtype"] = s_custom

-----------------------------------------------------------------------------
(* Properties of the sync client *)

\* the registry the converter uses
Registry == NewAssignmentTypeManager

\* whether the sync of item i of the batch in arg fails
ItemFails(i) ==
    ~SyncAssignment(Registry, arg.packages[i], arg.nets[i]).err.isNil

\* C13: BatchSyncAssignments processes every package in order whatever the
\* outcome of earlier items: Results has one entry per package, Results[i] is
\* the outcome of packages[i], SuccessCount + FailureCount = TotalCount =
\* number of packages; with 3 packages of which only the second fails,
\* SuccessCount = 2 and FailureCount = 1.
C13_BatchContinuesOnError ==
    op = "BatchSyncAssignments" =>
        LET r == ret.result
            n == Len(arg.packages)
        IN  /\ Len(r.Results) = n
            /\ r.TotalCount = n
            /\ r.SuccessCount + r.FailureCount = n
            /\ \A i \in 1..n :
                  LET s == SyncAssignment(Registry, arg.packages[i], arg.nets[i])
                  IN  IF s.err.isNil
                      THEN r.Results[i] = s.result[1]
                      ELSE /\ r.Results[i].Status = "failed"
                           /\ r.Results[i].Message = ErrorText(s.err)
            /\ (n = 3 /\ ItemFails(2) /\ ~ItemFails(1) /\ ~ItemFails(3)) =>
                  r.SuccessCount = 2 /\ r.FailureCount = 1

\* a batch of three packages was synced of which only the second failed
C13_Witness ==
    /\ op = "BatchSyncAssignments"
    /\ Len(arg.packages) = 3
    /\ ItemFails(2) /\ ~ItemFails(1) /\ ~ItemFails(3)
    /\ ret.result.Results[1].AssignmentID = "A1"
    /\ ret.result.Results[2].Status = "failed"
    /\ ret.result.Results[3].AssignmentID = "A2"
    /\ ret.result.SuccessCount = 2

-----------------------------------------------------------------------------
(* Properties of the content hasher *)

\* C14: calculateHash depends only on the assignment body: every package
\* with the same Assignment gets the digest of the hashed package, whatever
\* its metadata (id, version, timestamps, author, stored source hash).
C14_HashIgnoresMetadata ==
    op = "calculateHash" =>
        \A other \in HashPackages :
            other.Assignment = arg.Assignment => calculateHash(other) = ret

\* a package whose metadata differs in every field from the default was hashed
C14_Witness ==
    /\ op = "calculateHash"
    /\ arg.Metadata.ID = "uuid-3"
    /\ arg.Assignment.Questions = WizardPayload
    /\ ret = calculateHash([Metadata |-> DefaultMetadata,
                            Assignment |-> arg.Assignment])

\* C15: changing any substantive field of the assignment body changes the
\* digest, for every body, also one whose question payload cannot be
\* serialized.
C15_BodyChangeChangesDigest ==
    op = "calculateHash" =>
        \A other \in HashPackages :
            other.Assignment # arg.Assignment => calculateHash(other) # ret

-----------------------------------------------------------------------------
(* Properties of the suggestions and of the create command's types *)

\* the elements of a sequence
Range(seq) == {seq[i] : i \in DOMAIN seq}

DragDropTypes ==
    {s_drag_drop_ordering, s_drag_drop_categorization, s_drag_drop_fill_blank,
     s_drag_drop_labeling, s_drag_drop_image_caption}

C18_SuggestionOrderStable ==
    op = "GetSuggestedTypesAgain" => ret.second = ret.first

\* C19: for "multiplechoice" the suggestions include multiple-choice and quiz.
C19_TypoGetsSuggestions ==
    (op = "GetSuggestedTypes" /\ arg = s_multiplechoice) =>
        {s_multiple_choice, s_quiz} \subseteq Range(ret)

\* the types the help text of create and the README list as supported
HelpListedTypes ==
    {s_multiple_choice, s_true_false, s_matching, s_drag_and_drop, s_writing,
     s_writing_long, s_speaking, s_listening, s_code_submission}

\* C20: every type the help text and the README list as supported is
\* accepted by create: ValidatePortableType returns true for it.
C20_HelpListedTypesAccepted ==
    (op = "ValidatePortableType" /\ arg \in HelpListedTypes) => ret

-----------------------------------------------------------------------------
(* Properties of the package files *)

\* the assignment body a document holds, as the Go value the create wizard
\* builds for it (mappings as map[string]interface{})
BodyOf(doc) ==
    [doc.Assignment EXCEPT
        !.Questions = IF @.kind = "mapping"
                      THEN [kind |-> "map", size |-> @.size] ELSE @,
        !.CodeSubmissionConfig = IF @.kind = "mapping"
                                 THEN [kind |-> "map", size |-> @.size] ELSE @]

\* C16: after any sequence of create, manual edit, load and package
\* operations, every package file written by the tool has
\* metadata.source_hash equal to calculateHash of the assignment body written
\* in that same file.
C16_StoredHashMatchesBody ==
    \A f \in DOMAIN files :
        files[f].writer = "tool" =>
            files[f].doc.Metadata.SourceHash =
                calculateHash([Metadata |-> files[f].doc.Metadata,
                               Assignment |-> BodyOf(files[f].doc)])

\* the canonical type an alias stands for
AliasTarget(a) == ResolveType(atm, a).mapping.PortableType

\* C21: for every alias a of a canonical type t, `create a` behaves as
\* `create t`: with the same wizard answers it does not fail where `create t`
\* succeeds or the other way round, and the created file holds the
\* type-specific content (question payload, code submission settings,
\* auto-grade setting) that `create t` writes.
C21_AliasCreatesAsTarget ==
    (/\ op = "runCreate"
     /\ Len(arg.args) > 0
     /\ arg.args[1] \in AliasKeys \ CanonicalKeys) =>
        LET t == AliasTarget(arg.args[1])
            expected == YAMLMarshal(
                [Metadata |-> DefaultMetadata,
                 Assignment |-> createAssignmentWizard(t, arg.answers)]).Assignment
            filename == CreatedFileName(arg.answers.title)
        IN  /\ ret.status = "panic" <=> WizardPanics(t, arg.answers)
            /\ ret.status = "created" =>
                  /\ filename \in DOMAIN files
                  /\ files[filename].doc.Assignment.Questions = expected.Questions
                  /\ files[filename].doc.Assignment.CodeSubmissionConfig
                        = expected.CodeSubmissionConfig
                  /\ files[filename].doc.Assignment.AutoGrade = expected.AutoGrade

\* C22: the sync command prints the success indicator and an assignment id
\* only when the LMS accepted the assignment (the create exchange succeeds),
\* the printed id is the one the LMS returned, and the assignment was sent to
\* the LMS through the converter and the sync client.
C22_SyncReportsWhatTheLMSAnswered ==
    (op = "runSync" /\ ret.status = "Assignment synced successfully!") =>
        /\ HTTPFailure(arg.create).isNil
        /\ ret.id = arg.create.id
        /\ ret.requests > 0

-----------------------------------------------------------------------------
(* Properties of concurrent callers of GetTypeManager *)

\* C23: when several callers invoke GetTypeManager concurrently while no
\* registry exists yet, the registry is constructed exactly once and every
\* caller receives the same instance.
C23_RegistryConstructedOnce ==
    /\ callers.allocated <= 1
    /\ \A c, d \in Callers :
          (callers.pc[c] = "done" /\ callers.pc[d] = "done") =>
              callers.returned[c] = callers.returned[d]

-----------------------------------------------------------------------------
(* Properties of the wire record *)

\* the optional keys of the wire record and the assignment fields they carry
OptionalFields(assignment) ==
    [dueDate       |-> assignment.DueDate,
     availableFrom |-> assignment.AvailableFrom,
     availableTo   |-> assignment.AvailableTo,
     timeLimit     |-> assignment.TimeLimit,
     maxAttempts   |-> assignment.MaxAttempts]

\* C24: in the wire record produced by convertToLMSFormat, dueDate,
\* availableFrom, availableTo, timeLimit and maxAttempts are each present if
\* and only if the assignment field is set; the integer fields carry the value
\* pointed to, 0 included, and the time fields its RFC 3339 text.
C24_OptionalFieldsPresentIffSet ==
    op = "convertToLMSFormat" =>
        LET fields == OptionalFields(arg.Assignment) IN
        \A key \in DOMAIN fields :
            /\ key \in DOMAIN ret <=> fields[key] # <<>>
            /\ key \in DOMAIN ret =>
                  ret[key] = IF key \in {"timeLimit", "maxAttempts"}
                             THEN fields[key][1]
                             ELSE FormatRFC3339(fields[key][1])

\* a time limit explicitly set to 0 is sent as 0 while the unset due date and
\* attempt count are left out
C24_Witness ==
    /\ op = "convertToLMSFormat"
    /\ arg.Assignment.TimeLimit = <<0>>
    /\ arg.Assignment.MaxAttempts = <<>>
    /\ arg.Assignment.DueDate = <<>>
    /\ arg.Assignment.AvailableTo # <<>>
    /\ "timeLimit" \in DOMAIN ret
    /\ ret["timeLimit"] = 0
    /\ "maxAttempts" \notin DOMAIN ret
    /\ "dueDate" \notin DOMAIN ret
    /\ "availableTo" \in DOMAIN ret

-----------------------------------------------------------------------------
(* Properties of the listing of LMS types *)

\* the types the LMS supports according to the type-conflicts guide
GuideLMSTypes ==
    {s_multiple_choice, s_true_false, s_matching, s_drag_and_drop, s_writing,
     s_writing_long, s_speaking, s_assignment, s_listening, s_line_match,
     s_phoneme_build, s_image_upload, s_code_submission}

\* C25: GetLMSTypes returns, without duplicates, exactly the target LMS types
\* of the mappings, and this set is the thirteen types the LMS supports
\* according to the guide.
C25_LMSTypesAreTheGuideTypes ==
    op = "GetLMSTypes" =>
        /\ \A i, j \in DOMAIN ret : ret[i] = ret[j] => i = j
        /\ {ret[i] : i \in DOMAIN ret}
              = {atm.mappings[k].LMSType : k \in DOMAIN atm.mappings}
        /\ {ret[i] : i \in DOMAIN ret} = GuideLMSTypes
        /\ Len(ret) = 13

\* the listing was produced, and drag-and-drop, the target of five mappings,
\* is in it
C25_Witness ==
    /\ op = "GetLMSTypes"
    /\ Cardinality(DOMAIN atm.mappings) = 21
    /\ \E i \in DOMAIN ret : ret[i] = s_drag_and_drop
    /\ Cardinality({k \in DOMAIN atm.mappings :
                       atm.mappings[k].LMSType = s_drag_and_drop}) = 5

\* C26: when the package's assignment type resolves in the registry, the
\* wire record's "type" and "subtype" are the mapping's LMSType and
\* LMSSubtype; the subtype stored in the package is not used, so a package of
\* a type without subtype is sent with an empty subtype whatever it stores.
C26_ResolvedTypeAndSubtypeFromMapping ==
    (op = "convertToLMSFormat"
        /\ ResolveType(atm, arg.Assignment.Type).err.isNil) =>
        LET mapping == ResolveType(atm, arg.Assignment.Type).mapping IN
        /\ ret["type"] = mapping.LMSType
        /\ ret["subtype"] = mapping.LMSSubtype
        /\ mapping.LMSSubtype = <<>> => ret["subtype"] = <<>>

\* an essay that stores the subtype "custom" is sent as writing-long with an
\* empty subtype
C26_Witness ==
    /\ op = "convertToLMSFormat"
    /\ arg.Assignment.Type = s_essay
    /\ arg.Assignment.Subtype = s_custom
    /\ ret["type"] = s_writing_long
    /\ ret["subtype"] = <<>>

-----------------------------------------------------------------------------
(* Properties of SyncAssignment *)

\* an exchange that did not end with HTTP 200 or 201 and a parseable body
ExchangeFailed(exchange) ==
    \/ exchange.kind # "response"
    \/ exchange.status \notin {200, 201}
    \/ ~exchange.parseable

\* the upload requests among the requests a call sent
UploadRequests(requests) ==
    {i \in DOMAIN requests : requests[i].path = "/api/resources"}

\* C27: SyncAssignment attempts resource uploads only after the
\* create-assignment request returned HTTP 200 or 201 with a parseable body;
\* if the create request fails, no upload is attempted, no upload request is
\* sent and the call returns an error and no ImportResult.
C27_UploadsOnlyAfterCreate ==
    op = "SyncAssignment" =>
        /\ (ret.attempted # {} \/ UploadRequests(ret.requests) # {}) =>
              /\ ~ExchangeFailed(arg.net.create)
              /\ ret.requests[1] = Request("/api/assignments", 0)
              /\ 1 \notin UploadRequests(ret.requests)
        /\ ExchangeFailed(arg.net.create) =>
              /\ ret.attempted = {}
              /\ UploadRequests(ret.requests) = {}
              /\ ~ret.err.isNil
              /\ ret.result = <<>>

\* the LMS answered the create request with 500 while the package has a
\* resource with a file: the create request is the only one that was sent
C27_Witness ==
    /\ op = "SyncAssignment"
    /\ arg.net.create.kind = "response"
    /\ arg.net.create.status = 500
    /\ arg.pkg.Assignment.Questions = WizardPayload
    /\ \E i \in DOMAIN arg.pkg.Resources : arg.pkg.Resources[i].LocalPath # ""
    /\ ret.requests = <<Request("/api/assignments", 0)>>
    /\ ret.result = <<>>
    /\ ~ret.err.isNil

\* the resources with a file whose upload fails
FailingResources(c) ==
    {i \in DOMAIN c.pkg.Resources :
        /\ c.pkg.Resources[i].LocalPath # ""
        /\ ExchangeFailed(c.net.uploads[i])}

\* C28: when the assignment was created but uploading one of its resources
\* fails, SyncAssignment returns no error and an ImportResult with status
\* "partial" that keeps the assignment id of the LMS and carries no resource
\* ids, also none of the resources uploaded before the failing one; the
\* resources after the failing one are not attempted.
C28_FailedUploadGivesPartial ==
    (/\ op = "SyncAssignment"
     /\ arg.pkg.Assignment.Questions # YamlMapPayload
     /\ ~ExchangeFailed(arg.net.create)
     /\ FailingResources(arg) # {}) =>
        LET k == CHOOSE i \in FailingResources(arg) :
                     \A j \in FailingResources(arg) : i <= j
        IN  /\ ret.err.isNil
            /\ Len(ret.result) = 1
            /\ ret.result[1].Status = "partial"
            /\ ret.result[1].AssignmentID = arg.net.create.id
            /\ ret.result[1].ResourceIDs = <<>>
            /\ \A j \in DOMAIN arg.pkg.Resources : j > k => j \notin ret.attempted
            /\ k \in ret.attempted

\* the first resource was uploaded, the second failed: the result is partial
\* and does not carry the id the first upload returned
C28_Witness ==
    /\ op = "SyncAssignment"
    /\ arg.pkg.Assignment.Questions = WizardPayload
    /\ arg.net.create.status = 200
    /\ arg.net.create.parseable
    /\ Len(arg.pkg.Resources) = 2
    /\ \A i \in 1..2 : arg.pkg.Resources[i].LocalPath # ""
    /\ ~ExchangeFailed(arg.net.uploads[1])
    /\ ExchangeFailed(arg.net.uploads[2])
    /\ ret.attempted = {1, 2}
    /\ ret.result[1].Status = "partial"
    /\ ret.result[1].AssignmentID = "A1"
    /\ ret.result[1].ResourceIDs = <<>>

-----------------------------------------------------------------------------
(* Properties of the counters of a batch *)

\* the entries of Results with one of the given status tags
WithStatus(results, tags) == {i \in DOMAIN results : results[i].Status \in tags}

\* C29: after every BatchSyncAssignments call, FailureCount is the number of
\* entries of Results with status "failed" and SuccessCount the number of
\* entries with status "success" or "partial"; every failed entry has an empty
\* assignment id and the error text as message, and the call itself returns
\* no error.
C29_CountersMatchResults ==
    op = "BatchSyncAssignments" =>
        LET r == ret.result IN
        /\ ret.err.isNil
        /\ r.FailureCount = Cardinality(WithStatus(r.Results, {"failed"}))
        /\ r.SuccessCount
              = Cardinality(WithStatus(r.Results, {"success", "partial"}))
        /\ \A i \in DOMAIN r.Results :
              r.Results[i].Status \in {"success", "partial", "failed"}
        /\ \A i \in WithStatus(r.Results, {"failed"}) :
              /\ r.Results[i].AssignmentID = ""
              /\ r.Results[i].ResourceIDs = <<>>
              /\ ItemFails(i)
              /\ r.Results[i].Message
                    = ErrorText(SyncAssignment(Registry, arg.packages[i],
                                               arg.nets[i]).err)

\* a batch with a failed, a partially synced and a fully synced item: one
\* failure and two successes
C29_Witness ==
    /\ op = "BatchSyncAssignments"
    /\ Len(ret.result.Results) = 3
    /\ ret.result.Results[1].Status = "failed"
    /\ ret.result.Results[2].Status = "partial"
    /\ ret.result.Results[3].Status = "success"
    /\ ret.result.FailureCount = 1
    /\ ret.result.SuccessCount = 2

-----------------------------------------------------------------------------
(* The validator and the registry *)

\* C30: every package that validateAssignmentPackage accepts has an
\* assignment type that ResolveType accepts, so that convertToLMSFormat does
\* not take its fallback (the branch for err != nil of ConvertToLMSFormat)
\* for a validated package.
C30_ValidatedTypeResolves ==
    (op = "validateAssignmentPackage" /\ ret.IsValid) =>
        /\ ResolveType(Registry, arg.Assignment.Type).err.isNil
        /\ ConvertToLMSFormat(Registry, arg.Assignment.Type).err.isNil

=============================================================================
